---- MODULE Spec2Model ----
(***************************************************************************)
(* Heart_Guard ml_service: the inference pipeline of predict.py (main,     *)
(* predict_heart_disease, load_model, train_new_model,                     *)
(* create_fallback_model, preprocess_input) and the artifact writes of     *)
(* train_model.py.                                                         *)
(*                                                                         *)
(* Probabilities are integers in percent (0.2 is 20, 0.9 is 90).           *)
(* Clinical values are integers.  A process is one invocation of           *)
(* predict.py; the filesystem persists from one invocation to the next.    *)
(***************************************************************************)
EXTENDS Integers, Sequences, FiniteSets, TLC

VARIABLES
    argv,        \* the process argument: none, unparseable text, or a JSON value
    fs,          \* fs[dir][file]: content of the artifact files
    pc,          \* position of the process
    model,       \* classifier held by predict_heart_disease ("none" before load)
    scaler,      \* scaler held by predict_heart_disease
    X,           \* the array preprocess_input returned (<<>> before that)
    result,      \* the dict predict_heart_disease returned (NoResult before that)
    stdout,      \* lines printed to stdout, in order
    stderr,      \* diagnostics written to stderr, in order
    exitCode,    \* exit status (Running while the process runs)
    calls,       \* what ran in this invocation, and the training script if it
                 \* ran after it
    written,     \* <<dir, file>> of the files this invocation wrote
    invocation,  \* number of the current invocation
    prevSynth    \* the previous invocation synthesized and saved both artifacts

vars == <<argv, fs, pc, model, scaler, X, result, stdout, stderr, exitCode,
          calls, written, invocation, prevSynth>>

(***************************************************************************)
(* Bounds of the model.                                                    *)
(***************************************************************************)
MaxInvocations == 2
MaxPresent == 2

(***************************************************************************)
(* JSON values of the input record.                                        *)
(***************************************************************************)
Num(n) == [t |-> "num", v |-> n, s |-> <<>>]
Str(s) == [t |-> "str", v |-> 0, s |-> s]
Null == [t |-> "null", v |-> 0, s |-> <<>>]
Obj(o) == [t |-> "obj", o |-> o]

\* predict.py:170-173
required_features ==
    <<"age", "sex", "cp", "trestbps", "chol", "fbs", "restecg",
      "thalach", "exang", "oldpeak", "slope", "ca", "thal">>

\* defaults with the entries of trestbps and chol exchanged
defaults_exchanged ==
    [f \in {required_features[i] : i \in 1..Len(required_features)} |->
        CASE f = "age" -> 50
          [] f = "trestbps" -> 200
          [] f = "chol" -> 120
          [] f = "thalach" -> 150
          [] OTHER -> 0]

\* predict.py:182-186
defaults ==
    [f \in {required_features[i] : i \in 1..Len(required_features)} |->
        CASE f = "age" -> 50
          [] f = "trestbps" -> 120
          [] f = "chol" -> 200
          [] f = "thalach" -> 150
          [] OTHER -> 0]

Digits == {"0", "1", "2", "3", "4", "5", "6", "7", "8", "9"}

DigitVal(c) ==
    CASE c = "0" -> 0 [] c = "1" -> 1 [] c = "2" -> 2 [] c = "3" -> 3
      [] c = "4" -> 4 [] c = "5" -> 5 [] c = "6" -> 6 [] c = "7" -> 7
      [] c = "8" -> 8 [] c = "9" -> 9

RECURSIVE DecimalValue(_)
DecimalValue(s) ==
    IF s = <<>> THEN 0
    ELSE 10 * DecimalValue(SubSeq(s, 1, Len(s) - 1)) + DigitVal(s[Len(s)])

AllDigits(s) == Len(s) > 0 /\ \A i \in 1..Len(s) : s[i] \in Digits

\* float(value) of predict.py:179 on a JSON value: a number converts to itself,
\* a string to the number it spells (optional sign, then digits), anything else
\* raises ValueError (string) or TypeError (null).
float(j) ==
    CASE j.t = "num" -> [ok |-> TRUE, v |-> j.v]
      [] j.t = "str" ->
            IF AllDigits(j.s) THEN [ok |-> TRUE, v |-> DecimalValue(j.s)]
            ELSE IF Len(j.s) > 1 /\ j.s[1] = "-" /\ AllDigits(Tail(j.s))
                 THEN [ok |-> TRUE, v |-> 0 - DecimalValue(Tail(j.s))]
            ELSE [ok |-> FALSE, v |-> 0]
      [] OTHER -> [ok |-> FALSE, v |-> 0]

\* features_upto with a failed coercion replaced by the field's default
RECURSIVE features_upto_swallow(_, _)
features_upto_swallow(o, n) ==
    IF n = 0 THEN [ok |-> TRUE, X |-> <<>>]
    ELSE LET before == features_upto_swallow(o, n - 1)
             feature == required_features[n]
         IN  IF feature \in DOMAIN o /\ float(o[feature]).ok
             THEN [ok |-> TRUE, X |-> Append(before.X, float(o[feature]).v)]
             ELSE [ok |-> TRUE, X |-> Append(before.X, defaults[feature])]

\* predict.py:167-189.  data is a JSON value; the loop runs over
\* required_features in order and stops at the first exception.  The result is
\* [ok, X]: the 1 x 13 array as the sequence of its only row, or the exception.
RECURSIVE features_upto(_, _)
features_upto(o, n) ==
    IF n = 0 THEN [ok |-> TRUE, X |-> <<>>]
    ELSE LET before == features_upto(o, n - 1)
             feature == required_features[n]
         IN  IF ~before.ok THEN before
             ELSE IF feature \in DOMAIN o
                  THEN LET c == float(o[feature])
                       IN  IF c.ok THEN [ok |-> TRUE, X |-> Append(before.X, c.v)]
                           ELSE [ok |-> FALSE, X |-> <<>>]
                  ELSE [ok |-> TRUE, X |-> Append(before.X, defaults[feature])]

preprocess_input(data) ==
    IF data.t = "obj" THEN features_upto(data.o, Len(required_features))
    ELSE [ok |-> FALSE, X |-> <<>>]   \* `feature in data` raises TypeError

(***************************************************************************)
(* The artifact files.                                                     *)
(***************************************************************************)
ModelFile == "heart_disease_model.pkl"
ScalerFile == "heart_disease_scaler.pkl"
Files == {ModelFile, ScalerFile}

\* predict.py:21-24: the directory of predict.py, then ../server
candidates == <<"ml_service", "server">>
Dirs == {candidates[i] : i \in 1..Len(candidates)}

\* What a file can hold: nothing (the file does not exist), bytes pickle.load
\* rejects, or a pickled object.  "forest" is a RandomForestClassifier
\* (predict.py:108), "calibrated" a CalibratedClassifierCV (train_model.py:53),
\* "standard" a StandardScaler fitted on 13 columns, "skewed" one fitted on
\* another number of columns.
ModelContents == {"absent", "corrupt", "forest", "calibrated"}
ScalerContents == {"absent", "corrupt", "standard", "skewed"}

FileSystems ==
    {f \in [Dirs -> [Files -> ModelContents \cup ScalerContents]] :
        \A d \in Dirs : /\ f[d][ModelFile] \in ModelContents
                         /\ f[d][ScalerFile] \in ScalerContents}

\* predict.py:18-29
resolve_model_path(fsv, filename) ==
    LET found == {i \in 1..Len(candidates) : fsv[candidates[i]][filename] # "absent"}
    IN  IF found = {} THEN candidates[1]
        ELSE candidates[CHOOSE i \in found : \A k \in found : i <= k]

\* predict.py:136-165
create_fallback_model == [model |-> "rule", scaler |-> "rule"]

\* predict.py:32-46, up to the except clause: the pair, FileNotFoundError, or
\* the exception pickle.load raises on bytes it rejects.
load_model(fsv) ==
    LET m == fsv[resolve_model_path(fsv, ModelFile)][ModelFile]
        sc == fsv[resolve_model_path(fsv, ScalerFile)][ScalerFile]
    IN  IF m = "absent" THEN [kind |-> "FileNotFoundError"]
        ELSE IF m = "corrupt" THEN [kind |-> "UnpicklingError"]
        ELSE IF sc = "absent" THEN [kind |-> "FileNotFoundError"]
        ELSE IF sc = "corrupt" THEN [kind |-> "UnpicklingError"]
        ELSE [kind |-> "ok", model |-> m, scaler |-> sc]

\* predict.py:163, 1e-8 as its reciprocal
InvEps == 100000000

\* predict.py:160-163 on the 1 x 13 array of preprocess_input: the mean over
\* axis 0 of a one-row array is the row, its standard deviation is 0.
FallbackScaler_transform(row) ==
    LET mean == row
        std == [i \in 1..Len(row) |-> 0]
    IN  [i \in 1..Len(row) |-> ((row[i] - mean[i]) * InvEps) \div (std[i] * InvEps + 1)]

\* predict.py:139-154, the pair [1 - prob, prob] in percent
FallbackModel_predict_proba(features) ==
    LET risk_score ==
            (IF features[1] > 60 THEN 20 ELSE 0)
          + (IF features[2] = 1 THEN 10 ELSE 0)
          + (IF features[3] > 1 THEN 30 ELSE 0)
          + (IF features[4] > 140 THEN 20 ELSE 0)
          + (IF features[5] > 250 THEN 20 ELSE 0)
          + (IF features[8] < 120 THEN 20 ELSE 0)
        prob == IF risk_score < 90 THEN risk_score ELSE 90
    IN  <<100 - prob, prob>>

\* FallbackModel_predict thresholding column 0 of predict_proba
FallbackModel_predict_column0(features) ==
    IF FallbackModel_predict_proba(features)[1] > 50 THEN 1 ELSE 0

\* predict.py:156-158
FallbackModel_predict(features) ==
    IF FallbackModel_predict_proba(features)[2] > 50 THEN 1 ELSE 0

\* Positive-class probabilities a fitted classifier can return, in percent.
RawProbs == {0, 3, 50, 51, 97, 100}

\* predict of RandomForestClassifier and of CalibratedClassifierCV: the class
\* of the largest entry of predict_proba, the first one on a tie.
learned_predict(p) == IF p > 100 - p THEN 1 ELSE 0

\* predict.py:210: hasattr(model, 'estimators_')
has_estimators(m) == m = "forest"

(***************************************************************************)
(* Inputs.                                                                 *)
(***************************************************************************)
Keys == {required_features[i] : i \in 1..Len(required_features)} \cup {"name"}

Values == {Num(61), Str(<<"6", "1">>), Str(<<"-", "1">>), Str(<<"6", "x">>),
           Str(<<>>), Null}

\* The records with at most MaxPresent keys.
SmallRecords ==
    UNION {[ks -> Values] : ks \in {k \in SUBSET Keys : Cardinality(k) <= MaxPresent}}

HighRiskRecord ==
    [f \in {"age", "sex", "cp", "trestbps", "chol", "thalach"} |->
        CASE f = "age" -> Num(70)
          [] f = "sex" -> Num(1)
          [] f = "cp" -> Num(3)
          [] f = "trestbps" -> Num(160)
          [] f = "chol" -> Num(300)
          [] f = "thalach" -> Num(90)]

\* Every field present: the even fields as numbers, the odd ones as strings.
CompleteRecord ==
    [f \in Keys \ {"name"} |->
        LET i == CHOOSE k \in 1..Len(required_features) : required_features[k] = f
        IN  IF i % 2 = 1 THEN Str(<<"1", CHOOSE c \in Digits : DigitVal(c) = i % 10>>)
            ELSE Num(10 + i)]

Records == SmallRecords \cup {HighRiskRecord, CompleteRecord}

PipelineInputs ==
    { Obj([f \in {} |-> Null]), Obj(HighRiskRecord), Obj(CompleteRecord),
      Obj([f \in {"chol"} |-> Str(<<"6", "1">>)]),
      Obj([f \in {"age"} |-> Str(<<"6", "x">>)]),
      Obj([f \in {"thal"} |-> Null]),
      Num(5) }

Argvs ==
    {[kind |-> "none"], [kind |-> "malformed"]}
        \cup {[kind |-> "json", data |-> d] : d \in PipelineInputs}

NoResult == [pending |-> TRUE]
Running == 0 - 1

\* predict.py:217-222
error_result ==
    [prediction |-> 0, probability |-> 10, confidence |-> "fallback",
     error |-> "exception"]

(***************************************************************************)
(* The process.                                                            *)
(***************************************************************************)
Fresh ==
    /\ pc = "start"
    /\ model = "none"
    /\ scaler = "none"
    /\ X = <<>>
    /\ result = NoResult
    /\ stdout = <<>>
    /\ stderr = <<>>
    /\ exitCode = Running
    /\ calls = {}
    /\ written = {}

Init ==
    /\ argv \in Argvs
    /\ fs \in FileSystems
    /\ Fresh
    /\ invocation = 1
    /\ prevSynth = FALSE

\* Main with unparseable JSON answered by the fallback result on stdout
Main_defensive ==
    /\ pc = "start"
    /\ IF argv.kind = "none"
       THEN /\ stderr' = Append(stderr, "Error: No input data provided")
            /\ exitCode' = 1
            /\ pc' = "done"
            /\ UNCHANGED result
       ELSE IF argv.kind = "malformed"
       THEN /\ stderr' = Append(stderr, "Error: Invalid JSON input")
            /\ result' = error_result
            /\ pc' = "print"
            /\ UNCHANGED exitCode
       ELSE /\ pc' = "load"
            /\ UNCHANGED <<stderr, exitCode, result>>
    /\ UNCHANGED <<argv, fs, model, scaler, X, stdout, calls, written,
                   invocation, prevSynth>>

\* predict.py:224-248 up to the call of predict_heart_disease.  sys.exit(1)
\* raises SystemExit, which `except Exception` does not catch.
Main ==
    /\ pc = "start"
    /\ IF argv.kind = "none"
       THEN /\ stderr' = Append(stderr, "Error: No input data provided")
            /\ exitCode' = 1
            /\ pc' = "done"
       ELSE IF argv.kind = "malformed"
       THEN /\ stderr' = Append(stderr, "Error: Invalid JSON input")
            /\ exitCode' = 1
            /\ pc' = "done"
       ELSE /\ pc' = "load"
            /\ UNCHANGED <<stderr, exitCode>>
    /\ UNCHANGED <<argv, fs, model, scaler, X, result, stdout, calls, written,
                   invocation, prevSynth>>

\* LoadModel with load_model called outside the try block of
\* predict_heart_disease: the exception of pickle.load reaches main
LoadModel_uncaught ==
    /\ pc = "load"
    /\ calls' = calls \cup {"load_model"}
    /\ LET got == load_model(fs)
       IN  CASE got.kind = "ok" ->
                    /\ model' = got.model
                    /\ scaler' = got.scaler
                    /\ pc' = "infer"
                    /\ UNCHANGED <<stderr, exitCode>>
             [] got.kind = "FileNotFoundError" ->
                    /\ pc' = "train"
                    /\ UNCHANGED <<model, scaler, stderr, exitCode>>
             [] OTHER ->
                    /\ stderr' = Append(stderr, "Error")
                    /\ exitCode' = 1
                    /\ pc' = "done"
                    /\ UNCHANGED <<model, scaler>>
    /\ UNCHANGED <<argv, fs, X, result, stdout, written, invocation, prevSynth>>

\* predict.py:193-195 with load_model (32-46): the pair is loaded, or
\* FileNotFoundError sends load_model to train_new_model, or the exception of
\* pickle.load reaches the except clause of predict_heart_disease (213-222).
LoadModel ==
    /\ pc = "load"
    /\ calls' = calls \cup {"load_model"}
    /\ LET got == load_model(fs)
       IN  CASE got.kind = "ok" ->
                    /\ model' = got.model
                    /\ scaler' = got.scaler
                    /\ pc' = "infer"
                    /\ UNCHANGED <<result, stderr>>
             [] got.kind = "FileNotFoundError" ->
                    /\ pc' = "train"
                    /\ UNCHANGED <<model, scaler, result, stderr>>
             [] OTHER ->
                    /\ result' = error_result
                    /\ stderr' = Append(stderr, "Prediction error")
                    /\ pc' = "print"
                    /\ UNCHANGED <<model, scaler>>
    /\ UNCHANGED <<argv, fs, X, stdout, exitCode, written, invocation, prevSynth>>

\* predict.py:48-134.  The synthesis (58-114) succeeds or raises; each of the
\* two writes (117-123) succeeds or raises; any exception ends in
\* create_fallback_model.
TrainNewModel ==
    /\ pc = "train"
    /\ \E outcome \in {"ok", "fit raises", "model write raises", "scaler write raises"} :
        LET model_path == resolve_model_path(fs, ModelFile)
            scaler_path == resolve_model_path(fs, ScalerFile)
            with_model == [fs EXCEPT ![model_path][ModelFile] = "forest"]
        IN  CASE outcome = "ok" ->
                    /\ fs' = [with_model EXCEPT ![scaler_path][ScalerFile] = "standard"]
                    /\ written' = written \cup {<<model_path, ModelFile>>,
                                                <<scaler_path, ScalerFile>>}
                    /\ calls' = calls \cup {"train_new_model", "fit"}
                    /\ stderr' = Append(stderr, "Model trained and saved")
                    /\ model' = "forest"
                    /\ scaler' = "standard"
              [] outcome = "scaler write raises" ->
                    /\ fs' = with_model
                    /\ written' = written \cup {<<model_path, ModelFile>>}
                    /\ calls' = calls \cup {"train_new_model", "fit",
                                            "create_fallback_model"}
                    /\ stderr' = Append(stderr, "Error training model")
                    /\ model' = create_fallback_model.model
                    /\ scaler' = create_fallback_model.scaler
              [] OTHER ->
                    /\ calls' = calls \cup {"train_new_model", "create_fallback_model"}
                              \cup (IF outcome = "fit raises" THEN {} ELSE {"fit"})
                    /\ stderr' = Append(stderr, "Error training model")
                    /\ model' = create_fallback_model.model
                    /\ scaler' = create_fallback_model.scaler
                    /\ UNCHANGED <<fs, written>>
    /\ pc' = "infer"
    /\ UNCHANGED <<argv, X, result, stdout, exitCode, invocation, prevSynth>>

\* predict.py:207-211
success_result(m, prediction, probability) ==
    [prediction |-> prediction, probability |-> probability,
     confidence |-> IF has_estimators(m) THEN "high" ELSE "low"]

\* predict.py:197-222: preprocess_input, scaler.transform, model.predict and
\* model.predict_proba, each of which may raise into the except clause.  A
\* fitted classifier answers with any of RawProbs.
PredictHeartDisease ==
    /\ pc = "infer"
    /\ calls' = calls \cup {"preprocess_input"}
    /\ LET pre == preprocess_input(argv.data)
       IN  IF ~pre.ok
           THEN /\ result' = error_result
                /\ stderr' = Append(stderr, "Prediction error")
                /\ X' = X
           ELSE /\ X' = pre.X
                /\ IF scaler = "skewed"
                   THEN /\ result' = error_result
                        /\ stderr' = Append(stderr, "Prediction error")
                   ELSE /\ stderr' = stderr
                        /\ IF model = "rule"
                           THEN LET X_scaled == FallbackScaler_transform(pre.X)
                                IN  result' = success_result(model,
                                        FallbackModel_predict(X_scaled),
                                        FallbackModel_predict_proba(X_scaled)[2])
                           ELSE \E p \in RawProbs :
                                    result' = success_result(model, learned_predict(p), p)
    /\ pc' = "print"
    /\ UNCHANGED <<argv, fs, model, scaler, stdout, exitCode, written, invocation,
                   prevSynth>>

\* predict.py:241: print(json.dumps(result)), then the process ends with status 0
MainPrint ==
    /\ pc = "print"
    /\ stdout' = Append(stdout, result)
    /\ exitCode' = 0
    /\ pc' = "done"
    /\ UNCHANGED <<argv, fs, model, scaler, X, result, stderr, calls, written,
                   invocation, prevSynth>>

\* train_model.py:16-62 run in one of the two directories between two
\* invocations: it fits on the columns of heart.csv and writes both artifacts.
TrainModelScript ==
    /\ pc = "done"
    /\ \E d \in Dirs, sk \in {"standard", "skewed"} :
          fs' = [fs EXCEPT ![d] = [f \in Files |->
                                     IF f = ModelFile THEN "calibrated" ELSE sk]]
    /\ calls' = calls \cup {"train_model.py"}
    /\ UNCHANGED <<argv, pc, model, scaler, X, result, stdout, stderr, exitCode,
                   written, invocation, prevSynth>>

\* The caller starts predict.py again: a fresh process on the same files.
Respawn ==
    /\ pc = "done"
    /\ invocation < MaxInvocations
    /\ invocation' = invocation + 1
    /\ prevSynth' = /\ "fit" \in calls
                    /\ "create_fallback_model" \notin calls
                    /\ "train_model.py" \notin calls
    /\ argv' \in Argvs
    /\ pc' = "start"
    /\ model' = "none"
    /\ scaler' = "none"
    /\ X' = <<>>
    /\ result' = NoResult
    /\ stdout' = <<>>
    /\ stderr' = <<>>
    /\ exitCode' = Running
    /\ calls' = {}
    /\ written' = {}
    /\ UNCHANGED fs

Next ==
    \/ Main
    \/ LoadModel
    \/ TrainNewModel
    \/ PredictHeartDisease
    \/ MainPrint
    \/ TrainModelScript
    \/ Respawn

Spec == Init /\ [][Next]_vars

(***************************************************************************)
(* preprocess_input alone, on every record of Records.                     *)
(***************************************************************************)
InitVec ==
    /\ argv \in {[kind |-> "json", data |-> Obj(r)] : r \in Records}
    /\ fs = [d \in Dirs |-> [f \in Files |-> "absent"]]
    /\ pc = "vectorize"
    /\ model = "none"
    /\ scaler = "none"
    /\ X = <<>>
    /\ result = NoResult
    /\ stdout = <<>>
    /\ stderr = <<>>
    /\ exitCode = Running
    /\ calls = {}
    /\ written = {}
    /\ invocation = 1
    /\ prevSynth = FALSE

\* predict.py:198: X = preprocess_input(input_data), which returns or raises
Vectorize ==
    /\ pc = "vectorize"
    /\ LET pre == preprocess_input(argv.data)
       IN  /\ X' = pre.X
           /\ calls' = IF pre.ok THEN {"preprocess_input"}
                       ELSE {"preprocess_input", "raised"}
    /\ pc' = "vectorized"
    /\ UNCHANGED <<argv, fs, model, scaler, result, stdout, stderr, exitCode,
                   written, invocation, prevSynth>>

NextVec == Vectorize

SpecVec == InitVec /\ [][NextVec]_vars

(***************************************************************************)
(* Claims.  Printed(r) says r is the line the finished process printed.    *)
(***************************************************************************)
Finished == pc = "done"
Parsed == argv.kind = "json"
Succeeded == Finished /\ Len(stdout) = 1 /\ "error" \notin DOMAIN stdout[1]

\* The numbers the sample values spell, written out.
SpelledNumber(j) ==
    CASE j.t = "num" -> j.v
      [] j.s = <<"6", "1">> -> 61
      [] j.s = <<"-", "1">> -> 0 - 1
      [] j.s = <<"1", "1">> -> 11
      [] j.s = <<"1", "3">> -> 13
      [] j.s = <<"1", "5">> -> 15
      [] j.s = <<"1", "7">> -> 17
      [] j.s = <<"1", "9">> -> 19

IsNumeric(j) ==
    \/ j.t = "num"
    \/ /\ j.t = "str"
       /\ j.s \in {<<"6", "1">>, <<"-", "1">>, <<"1", "1">>, <<"1", "3">>,
                    <<"1", "5">>, <<"1", "7">>, <<"1", "9">>}

FixedOrder ==
    <<"age", "sex", "cp", "trestbps", "chol", "fbs", "restecg", "thalach",
      "exang", "oldpeak", "slope", "ca", "thal">>

DocumentedDefault(f) ==
    CASE f = "age" -> 50 [] f = "trestbps" -> 120 [] f = "chol" -> 200
      [] f = "thalach" -> 150 [] OTHER -> 0

KnownFields(o) == DOMAIN o \cap {FixedOrder[i] : i \in 1..13}

\* C1: every successful prediction reports a probability within [0.05, 0.95],
\* whichever classifier was loaded.
C1_ProbabilityClamped ==
    Succeeded => stdout[1].probability >= 5 /\ stdout[1].probability <= 95

\* C2: when a present field cannot be coerced to a number, no feature vector
\* is built from a default; the process prints the result with an error
\* string, probability 0.1, prediction 0 and confidence "fallback".
C2_CoercionFailureReported ==
    (/\ Finished
     /\ Parsed
     /\ argv.data.t = "obj"
     /\ \E f \in KnownFields(argv.data.o) : ~IsNumeric(argv.data.o[f]))
    => /\ X = <<>>
       /\ Len(stdout) = 1
       /\ "error" \in DOMAIN stdout[1]
       /\ stdout[1].probability = 10
       /\ stdout[1].prediction = 0
       /\ stdout[1].confidence = "fallback"

C2_Witness ==
    /\ Finished
    /\ Parsed
    /\ argv.data = Obj([f \in {"age"} |-> Str(<<"6", "x">>)])
    /\ model = "forest"
    /\ Len(stdout) = 1

\* C3: an artifact file that is missing or fails to deserialize is recovered
\* inside the loader: a classifier/scaler pair is in use and the result has
\* no error caused by loading.
C3_ArtifactProblemsRecovered ==
    (pc \in {"print", "done"} /\ Parsed)
    => /\ model # "none"
       /\ scaler # "none"
       /\ "error" \in DOMAIN result => "preprocess_input" \in calls

\* C4: in a successful prediction the confidence is "fallback" exactly when
\* the rule-based stand-in is the classifier, and "high" or "low" otherwise.
C4_ConfidenceNamesClassifier ==
    Succeeded => IF model = "rule" THEN stdout[1].confidence = "fallback"
                 ELSE stdout[1].confidence \in {"high", "low"}

\* C5: in every emitted result the prediction is 1 iff the reported
\* probability is strictly greater than 0.5.
C5_LabelIsThreshold ==
    /\ result # NoResult => (result.prediction = 1 <=> result.probability > 50)
    /\ \A i \in 1..Len(stdout) :
          /\ stdout[i].prediction \in {0, 1}
          /\ stdout[i].prediction = 1 <=> stdout[i].probability > 50

C5_Witness ==
    /\ Finished
    /\ Len(stdout) = 1
    /\ stdout[1].probability = 50
    /\ stdout[1].prediction = 0

\* C6: for a record whose present fields are all numeric, preprocess_input
\* returns 13 values in the fixed order, each the record's value for the field
\* when present and the documented default otherwise.
C6_VectorInFixedOrder ==
    (/\ pc = "vectorized"
     /\ \A f \in KnownFields(argv.data.o) : IsNumeric(argv.data.o[f]))
    => /\ "raised" \notin calls
       /\ Len(X) = 13
       /\ \A i \in 1..13 :
             X[i] = IF FixedOrder[i] \in DOMAIN argv.data.o
                    THEN SpelledNumber(argv.data.o[FixedOrder[i]])
                    ELSE DocumentedDefault(FixedOrder[i])

C6_Witness ==
    /\ pc = "vectorized"
    /\ DOMAIN argv.data.o = {"chol", "name"}
    /\ argv.data.o["chol"] = Str(<<"-", "1">>)
    /\ argv.data.o["name"] = Null
    /\ Len(X) = 13
    /\ X[5] = 0 - 1
    /\ X[4] = 120

\* C7: unparseable JSON ends as a missing argument does: one diagnostic on
\* stderr, nothing on stdout, exit status 1, and neither load_model,
\* preprocess_input nor an artifact write is reached.
C7_MalformedLikeMissing ==
    /\ ~Parsed => /\ calls \subseteq {"train_model.py"}
                  /\ written = {}
                  /\ stdout = <<>>
                  /\ result = NoResult
                  /\ pc \in {"start", "done"}
    /\ (Finished /\ ~Parsed) => exitCode = 1 /\ Len(stderr) = 1

C7_Witness == Finished /\ argv.kind = "malformed" /\ exitCode = 1

\* C8: an invocation whose argument parses ends with status 0 and exactly
\* one JSON object with prediction, probability and confidence on stdout,
\* whatever failed; no invocation ends with a result and a non-zero status, or
\* with neither a result nor a diagnostic; an unfinished one has printed
\* nothing and stands at a step of the process.
C8_AlwaysOneResult ==
    /\ (Finished /\ Parsed)
          => /\ exitCode = 0
             /\ Len(stdout) = 1
             /\ {"prediction", "probability", "confidence"} \subseteq DOMAIN stdout[1]
    /\ Finished => /\ ~(stdout # <<>> /\ exitCode # 0)
                   /\ ~(stdout = <<>> /\ stderr = <<>>)
    /\ ~Finished => /\ stdout = <<>>
                    /\ exitCode = Running
                    /\ pc \in {"start", "load", "train", "infer", "print"}

C8_Witness ==
    /\ Finished
    /\ Parsed
    /\ exitCode = 0
    /\ fs["ml_service"][ModelFile] = "corrupt"
    /\ calls = {"load_model"}
    /\ "error" \in DOMAIN stdout[1]

\* C9: with the rule-based pair in use, the record age=70, sex=1, cp=3,
\* trestbps=160, chol=300, thalach=90 yields confidence "fallback" and a
\* probability of at least 0.5.
C9_HighRiskOnFallback ==
    (Finished /\ Parsed /\ model = "rule" /\ argv.data = Obj(HighRiskRecord))
    => /\ stdout[1].confidence = "fallback"
       /\ stdout[1].probability >= 50

\* C10: when train_new_model synthesizes and saves, both artifacts are
\* written to the directory of predict.py, and the next invocation does not
\* call train_new_model.
C10_SavedNextToScript ==
    /\ ("fit" \in calls /\ "create_fallback_model" \notin calls)
          => written = {<<candidates[1], ModelFile>>, <<candidates[1], ScalerFile>>}
    /\ prevSynth => "train_new_model" \notin calls

====
